---------------------------- MODULE Spec2Model ----------------------------
(***************************************************************************)
(* Model of src/app.py: the barcode/quantity consolidation tool.           *)
(*                                                                         *)
(* Text is a sequence of code points, a byte stream a sequence of numbers  *)
(* 0..255.  A record is [code, quantity] as the dicts of the source, an    *)
(* error message is the record of the values its f-string interpolates     *)
(* (file name, line number, which message, the quoted quantity text).      *)
(*                                                                         *)
(* Three specifications share the variables:                               *)
(*   Spec       the Streamlit session: the uploader, the two buttons, the  *)
(*              script runs and reruns that move st.session_state          *)
(*   RunSpec    the result block of one script run (lines 214-224),        *)
(*              statement by statement, while the wall clock advances      *)
(*   ParseSpec  parse_uploaded_file applied to every small byte stream     *)
(***************************************************************************)
EXTENDS Integers, Sequences, FiniteSets, TLC

VARIABLES
    processed_data,     \* st.session_state.processed_data
    errors,             \* st.session_state.errors
    processed_files,    \* st.session_state.processed_files
    run_processing,     \* TRUE iff the key run_processing is in the session state
    uploaded_files,     \* value of the st.file_uploader widget
    selected_layout,    \* value of the sidebar selectbox
    final_data,         \* final_data of the result block (<<>> if not shown)
    result_text,        \* result_text of the result block
    download_file_name, \* download_file_name of the result block
    clock,              \* the wall clock datetime.now(tz) reads
    parse_calls,        \* history: calls of parse_uploaded_file per file name
    last_event,         \* history: the widget event of the last script run
    pc,                 \* position in the result block / in the parser check
    call_args,          \* ParseSpec: the file given to parse_uploaded_file
    call_ret            \* ParseSpec: what parse_uploaded_file returned

vars == <<processed_data, errors, processed_files, run_processing,
          uploaded_files, selected_layout, final_data, result_text,
          download_file_name, clock, parse_calls, last_event, pc, call_args,
          call_ret>>

(***************************************************************************)
(* Bounds of the model.                                                    *)
(***************************************************************************)
MaxFileLen == 6     \* bytes in a file of ParseSpec
MaxRecs    == 3     \* records accumulated when the result block runs in RunSpec
MaxBatch   == 2     \* files held at once by the uploader widget in Spec

(***************************************************************************)
(* Characters the code names.                                             *)
(***************************************************************************)
COMMA      == 44    \* ','  stripped_line.split(',')
SPACE      == 32    \* ' '  layout.replace(" ", "")
LF         == 10    \* '\n' "\n".join(result_lines)
UNDERSCORE == 95    \* '_'  in the file name
MINUS      == 45    \* '-'  sign accepted by int(), printed by str()
PLUS       == 43    \* '+'  sign accepted by int()
ZERO       == 48    \* '0'

Range(s) == {s[i] : i \in DOMAIN s}

(***************************************************************************)
(* Python string methods, as far as the code uses them.                    *)
(***************************************************************************)
\* str.isspace on one character (ASCII whitespace, NEL, NBSP).
IsSpace(c) == c \in {9, 10, 11, 12, 13, 28, 29, 30, 31, 32, 133, 160}

IsDigit(c) == c \in 48..57

\* Line boundaries of str.splitlines.
IsLineBreak(c) == c \in {10, 11, 12, 13, 28, 29, 30, 133}

RECURSIVE LStrip(_)
LStrip(s) == IF s # <<>> /\ IsSpace(Head(s)) THEN LStrip(Tail(s)) ELSE s

RECURSIVE RStrip(_)
RStrip(s) ==
    IF s # <<>> /\ IsSpace(s[Len(s)]) THEN RStrip(SubSeq(s, 1, Len(s) - 1)) ELSE s

\* str.strip()
Strip(s) == RStrip(LStrip(s))

\* str.split(sep) for a one-character separator: always at least one part.
RECURSIVE SplitFrom(_, _, _, _)
SplitFrom(s, sep, cur, acc) ==
    IF s = <<>> THEN Append(acc, cur)
    ELSE IF Head(s) = sep THEN SplitFrom(Tail(s), sep, <<>>, Append(acc, cur))
    ELSE SplitFrom(Tail(s), sep, Append(cur, Head(s)), acc)

Split(s, sep) == SplitFrom(s, sep, <<>>, <<>>)

\* str.splitlines(): "\r\n" is one boundary; no empty last line after a
\* trailing boundary; the empty text has no lines.
RECURSIVE SplitLinesFrom(_, _, _)
SplitLinesFrom(s, cur, acc) ==
    IF s = <<>> THEN (IF cur = <<>> THEN acc ELSE Append(acc, cur))
    ELSE IF IsLineBreak(Head(s))
         THEN LET rest == IF Head(s) = 13 /\ Len(s) >= 2 /\ s[2] = 10
                          THEN Tail(Tail(s)) ELSE Tail(s)
              IN  SplitLinesFrom(rest, <<>>, Append(acc, cur))
    ELSE SplitLinesFrom(Tail(s), Append(cur, Head(s)), acc)

SplitLines(s) == SplitLinesFrom(s, <<>>, <<>>)

\* str.replace(" ", "")
RemoveSpaces(s) == SelectSeq(s, LAMBDA c : c # SPACE)

\* "sep".join(parts)
RECURSIVE Join(_, _)
Join(parts, sep) ==
    IF parts = <<>> THEN <<>>
    ELSE IF Len(parts) = 1 THEN parts[1]
    ELSE parts[1] \o <<sep>> \o Join(Tail(parts), sep)

\* bytes.decode("utf-8") for streams of one- and two-byte sequences; any
\* other byte (a stray continuation byte, 0xC0, 0xC1, 0xF5..0xFF) raises
\* UnicodeDecodeError.  Lead bytes 0xE0..0xF4 are outside the model.
RECURSIVE Utf8Decode(_)
Utf8Decode(b) ==
    IF b = <<>> THEN [ok |-> TRUE, text |-> <<>>]
    ELSE IF Head(b) < 128
         THEN LET r == Utf8Decode(Tail(b))
              IN  [ok |-> r.ok, text |-> <<Head(b)>> \o r.text]
    ELSE IF Head(b) \in 194..223 /\ Len(b) >= 2 /\ b[2] \in 128..191
         THEN LET r == Utf8Decode(Tail(Tail(b)))
              IN  [ok |-> r.ok,
                   text |-> <<(Head(b) - 192) * 64 + (b[2] - 128)>> \o r.text]
    ELSE [ok |-> FALSE, text |-> <<>>]

\* Value of a run of decimal digits that may hold single underscores
\* between digits (PEP 515); ok is FALSE where int() raises ValueError.
RECURSIVE DigitsValue(_, _, _)
DigitsValue(s, acc, afterDigit) ==
    IF s = <<>> THEN [ok |-> afterDigit, val |-> acc]
    ELSE IF IsDigit(Head(s))
         THEN DigitsValue(Tail(s), acc * 10 + (Head(s) - ZERO), TRUE)
    ELSE IF Head(s) = UNDERSCORE /\ afterDigit
         THEN DigitsValue(Tail(s), acc, FALSE)
    ELSE [ok |-> FALSE, val |-> 0]

\* int(s): surrounding whitespace, an optional sign, decimal digits.
PyInt(s) ==
    LET t    == Strip(s)
        neg  == t # <<>> /\ Head(t) = MINUS
        body == IF t # <<>> /\ Head(t) \in {MINUS, PLUS} THEN Tail(t) ELSE t
        d    == DigitsValue(body, 0, FALSE)
    IN  [ok |-> d.ok, val |-> IF neg THEN 0 - d.val ELSE d.val]

\* str(n) of a natural number, zero-padded to at least width digits.
RECURSIVE PadNat(_, _)
PadNat(n, width) ==
    IF n < 10 /\ width <= 1 THEN <<ZERO + n>>
    ELSE Append(PadNat(n \div 10, width - 1), ZERO + (n % 10))

\* str(n) of an integer, as an f-string prints it.
PyStr(n) == IF n < 0 THEN <<MINUS>> \o PadNat(0 - n, 1) ELSE PadNat(n, 1)

(***************************************************************************)
(* parse_uploaded_file                                                     *)
(***************************************************************************)
Err(name, line_num, kind, detail) ==
    [file |-> name, line |-> line_num, kind |-> kind, detail |-> detail]

\* A faulty variant: the quantity check of lines 66-68 is missing.
ParseLineNoSignCheck(name, line_num, line) ==
    LET stripped_line == Strip(line)
        parts         == Split(stripped_line, COMMA)
        code          == Strip(parts[1])
        quantity_str  == Strip(parts[2])
        q             == PyInt(quantity_str)
    IN  IF stripped_line = <<>> THEN [records |-> <<>>, errors |-> <<>>]
        ELSE IF Len(parts) # 2
        THEN [records |-> <<>>, errors |-> <<Err(name, line_num, "format", <<>>)>>]
        ELSE IF code = <<>>
        THEN [records |-> <<>>, errors |-> <<Err(name, line_num, "empty_code", <<>>)>>]
        ELSE IF ~q.ok
        THEN [records |-> <<>>,
              errors  |-> <<Err(name, line_num, "not_integer", quantity_str)>>]
        ELSE [records |-> <<[code |-> code, quantity |-> q.val]>>, errors |-> <<>>]

\* One iteration of the loop of lines 47-71: what it appends to the
\* records and to the errors.
ParseLine(name, line_num, line) ==
    LET stripped_line == Strip(line)
        parts         == Split(stripped_line, COMMA)
        code          == Strip(parts[1])
        quantity_str  == Strip(parts[2])
        q             == PyInt(quantity_str)
    IN  IF stripped_line = <<>> THEN [records |-> <<>>, errors |-> <<>>]
        ELSE IF Len(parts) # 2
        THEN [records |-> <<>>, errors |-> <<Err(name, line_num, "format", <<>>)>>]
        ELSE IF code = <<>>
        THEN [records |-> <<>>, errors |-> <<Err(name, line_num, "empty_code", <<>>)>>]
        ELSE IF ~q.ok
        THEN [records |-> <<>>,
              errors  |-> <<Err(name, line_num, "not_integer", quantity_str)>>]
        ELSE IF q.val < 0
        THEN [records |-> <<>>, errors |-> <<Err(name, line_num, "negative", <<>>)>>]
        ELSE [records |-> <<[code |-> code, quantity |-> q.val]>>, errors |-> <<>>]

\* A faulty variant: the loop returns at the first line that is in error.
RECURSIVE ParseLinesStopAtError(_, _, _)
ParseLinesStopAtError(name, lines, line_num) ==
    IF line_num > Len(lines) THEN [records |-> <<>>, errors |-> <<>>]
    ELSE LET one == ParseLine(name, line_num, lines[line_num])
         IN  IF one.errors # <<>> THEN one
             ELSE LET rest == ParseLinesStopAtError(name, lines, line_num + 1)
                  IN  [records |-> one.records \o rest.records,
                       errors  |-> rest.errors]

\* The loop of line 47 from line_num on: enumerate(lines, 1).
RECURSIVE ParseLines(_, _, _)
ParseLines(name, lines, line_num) ==
    IF line_num > Len(lines) THEN [records |-> <<>>, errors |-> <<>>]
    ELSE LET one  == ParseLine(name, line_num, lines[line_num])
             rest == ParseLines(name, lines, line_num + 1)
         IN  [records |-> one.records \o rest.records,
              errors  |-> one.errors \o rest.errors]

\* parse_uploaded_file(uploaded_file) for an uploaded file [name, bytes]
\* (the widget never hands over a falsy file, so line 37 does not return).
parse_uploaded_file(uploaded_file) ==
    LET dec == Utf8Decode(uploaded_file.bytes)
    IN  IF ~dec.ok
        THEN [records |-> <<>>,
              errors  |-> <<Err(uploaded_file.name, 0, "read", <<>>)>>]
        ELSE ParseLines(uploaded_file.name, SplitLines(dec.text), 1)

(***************************************************************************)
(* aggregate_data                                                          *)
(***************************************************************************)
\* Position of code among the keys of the dict summed_quantities, kept as
\* the sequence of its items in insertion order; 0 if it is no key.
KeyIndex(summed_quantities, code) ==
    IF \E i \in DOMAIN summed_quantities : summed_quantities[i].code = code
    THEN CHOOSE i \in DOMAIN summed_quantities : summed_quantities[i].code = code
    ELSE 0

\* A faulty variant: line 90 assigns the quantity instead of adding it.
AddItemOverwrite(summed_quantities, item) ==
    LET k == KeyIndex(summed_quantities, item.code)
    IN  IF k = 0
        THEN Append(summed_quantities,
                    [code |-> item.code, quantity |-> item.quantity])
        ELSE [summed_quantities EXCEPT ![k].quantity = item.quantity]

\* Line 90: summed_quantities[code] = summed_quantities.get(code, 0) + quantity
AddItem(summed_quantities, item) ==
    LET k == KeyIndex(summed_quantities, item.code)
    IN  IF k = 0
        THEN Append(summed_quantities,
                    [code |-> item.code, quantity |-> 0 + item.quantity])
        ELSE [summed_quantities EXCEPT ![k].quantity = @ + item.quantity]

RECURSIVE AggregateFrom(_, _)
AggregateFrom(data, summed_quantities) ==
    IF data = <<>> THEN summed_quantities
    ELSE AggregateFrom(Tail(data), AddItem(summed_quantities, Head(data)))

\* aggregate_data(data): the items of the dict, in insertion order.
aggregate_data(data) == AggregateFrom(data, <<>>)

(***************************************************************************)
(* format_output_data and generate_filename                                *)
(***************************************************************************)
LayoutApha7      == <<76, 97, 121, 111, 117, 116, 32, 65, 112, 104, 97, 55>>
LayoutInovaFarma == <<76, 97, 121, 111, 117, 116, 32, 73, 110, 111, 118, 97,
                      70, 97, 114, 109, 97>>
Layout3          == <<76, 97, 121, 111, 117, 116, 32, 51>>
Layout4          == <<76, 97, 121, 111, 117, 116, 32, 52>>

\* LAYOUT_OPTIONS: "Layout Apha7" -> "Apha7", "Layout InovaFarma" ->
\* "InovaFarma", "Layout 3" -> "L3", "Layout 4" -> "L4".
LAYOUT_OPTIONS ==
    (LayoutApha7 :> <<65, 112, 104, 97, 55>>) @@
    (LayoutInovaFarma :> <<73, 110, 111, 118, 97, 70, 97, 114, 109, 97>>) @@
    (Layout3 :> <<76, 51>>) @@
    (Layout4 :> <<76, 52>>)

\* options=list(LAYOUT_OPTIONS.keys())
LayoutNames == DOMAIN LAYOUT_OPTIONS

\* datetime.now(tz) is a number of seconds of local time (America/Sao_Paulo)
\* since 2024-01-01 00:00:00; the model stays within January 2024.
DateStr(now) == PadNat(2024, 4) \o PadNat(1, 2) \o PadNat(1 + now \div 86400, 2)

\* now.strftime("%H%M%S")
TimeStrContent(now) ==
    PadNat((now % 86400) \div 3600, 2) \o PadNat((now % 3600) \div 60, 2)
        \o PadNat(now % 60, 2)

\* now.strftime("%H%M")
TimeStrFilename(now) ==
    PadNat((now % 86400) \div 3600, 2) \o PadNat((now % 3600) \div 60, 2)

\* A faulty variant: an insertion that puts x before the items of equal quantity.
InsertBeforeTies(sorted_data, x) ==
    LET p == Cardinality({i \in DOMAIN sorted_data :
                             sorted_data[i].quantity < x.quantity})
    IN  SubSeq(sorted_data, 1, p) \o <<x>>
            \o SubSeq(sorted_data, p + 1, Len(sorted_data))

\* x put into the sorted list after every item whose key is <= its key.
InsertByQuantity(sorted_data, x) ==
    LET p == Cardinality({i \in DOMAIN sorted_data :
                             sorted_data[i].quantity <= x.quantity})
    IN  SubSeq(sorted_data, 1, p) \o <<x>>
            \o SubSeq(sorted_data, p + 1, Len(sorted_data))

\* sorted(data, key=lambda x: x['quantity']): ascending and stable.
RECURSIVE SortedByQuantity(_)
SortedByQuantity(data) ==
    IF data = <<>> THEN <<>>
    ELSE InsertByQuantity(SortedByQuantity(SubSeq(data, 1, Len(data) - 1)),
                          data[Len(data)])

\* A faulty variant: every layout but InovaFarma gets the suffix, Apha7 included.
FormatLineAlwaysSuffix(item, layout, date_str, time_str_content) ==
    IF layout = LayoutInovaFarma
    THEN item.code \o <<COMMA>> \o PyStr(item.quantity)
    ELSE date_str \o <<COMMA>> \o time_str_content \o <<COMMA>> \o item.code
            \o <<COMMA>> \o PyStr(item.quantity) \o <<COMMA>> \o RemoveSpaces(layout)

\* Lines 113-121: the line of one item.
FormatLine(item, layout, date_str, time_str_content) ==
    IF layout = LayoutInovaFarma
    THEN item.code \o <<COMMA>> \o PyStr(item.quantity)
    ELSE LET base_line == date_str \o <<COMMA>> \o time_str_content \o <<COMMA>>
                              \o item.code \o <<COMMA>> \o PyStr(item.quantity)
         IN  IF layout # LayoutApha7
             THEN base_line \o <<COMMA>> \o RemoveSpaces(layout)
             ELSE base_line

\* format_output_data(data, layout, TIMEZONE), whose datetime.now(tz) reads now.
format_output_data(data, layout, now) ==
    LET sorted_data  == SortedByQuantity(data)
        result_lines == [i \in DOMAIN sorted_data |->
                            FormatLine(sorted_data[i], layout, DateStr(now),
                                       TimeStrContent(now))]
    IN  Join(result_lines, LF)

\* generate_filename(layout, TIMEZONE), whose datetime.now(tz) reads now.
generate_filename(layout, now) ==
    LET layout_short ==
            RemoveSpaces(IF layout \in DOMAIN LAYOUT_OPTIONS
                         THEN LAYOUT_OPTIONS[layout]
                         ELSE <<76, 97, 121, 111, 117, 116>>)
    IN  <<68, 97, 100, 111, 115, 95, 67, 111, 110, 115, 111, 108, 105, 100, 97,
          100, 111, 115, 95>>                       \* "Dados_Consolidados_"
            \o layout_short \o <<UNDERSCORE>> \o DateStr(now) \o <<UNDERSCORE>>
            \o TimeStrFilename(now) \o <<46, 116, 120, 116>>     \* ".txt"

(***************************************************************************)
(* The session: the script of lines 22-239, run once per widget event and  *)
(* again after every st.rerun().  Spec follows st.session_state and the    *)
(* aggregated data the result block shows; the text and the file name the  *)
(* block derives from them are followed in RunSpec.                        *)
(***************************************************************************)
\* The files the user has at hand.
FileA == [name |-> "a.txt",                     \* "A,1\nB,0"
          bytes |-> <<65, 44, 49, 10, 66, 44, 48>>]
FileB == [name |-> "b.txt",                     \* " A , 2 \n\nB,-1\nX"
          bytes |-> <<32, 65, 32, 44, 32, 50, 32, 10, 10, 66, 44, 45, 49, 10, 88>>]
FileC == [name |-> "c.txt", bytes |-> <<255>>]  \* not UTF-8

UserFiles == {FileA, FileB, FileC}

FileNames == {f.name : f \in UserFiles}

\* What the uploader can hold: any list of at most MaxBatch of the files
\* (the widget accepts the same file, or the same name, more than once).
Batches == UNION {[1..n -> UserFiles] : n \in 0..MaxBatch}

\* The session state as one value.
SessionState ==
    [processed_data  |-> processed_data,
     errors          |-> errors,
     processed_files |-> processed_files,
     run_processing  |-> run_processing,
     parse_calls     |-> parse_calls]

\* Line 177: the list comprehension, evaluated once before the loop.
new_files_to_process(uploaded, ss) ==
    SelectSeq(uploaded, LAMBDA f : f.name \notin ss.processed_files)

\* parse_uploaded_file is a function of the file alone: its values on the
\* user's files, tabulated.
ParsedUserFile == [f \in UserFiles |-> parse_uploaded_file(f)]

\* Lines 181-184: the body of the loop for one file.
IngestFile(ss, file) ==
    LET parsed == ParsedUserFile[file]
    IN  [ss EXCEPT !.processed_data  = @ \o parsed.records,
                   !.errors          = @ \o parsed.errors,
                   !.processed_files = @ \cup {file.name},
                   !.parse_calls[file.name] = @ + 1]

\* A faulty variant: the decoding error is caught around the loop instead of in
\* the parser: the first file that cannot be decoded ends the loop with one
\* error, and the files after it are marked as processed without being read.
RECURSIVE IngestLoopAbort(_, _)
IngestLoopAbort(ss, files) ==
    IF files = <<>> THEN ss
    ELSE IF ~Utf8Decode(Head(files).bytes).ok
    THEN [ss EXCEPT !.errors = @ \o <<Err(Head(files).name, 0, "read", <<>>)>>,
                    !.processed_files = @ \cup {files[i].name : i \in DOMAIN files}]
    ELSE IngestLoopAbort(IngestFile(ss, Head(files)), Tail(files))

\* Lines 180-184: for file in new_files_to_process.
RECURSIVE IngestLoop(_, _)
IngestLoop(ss, files) ==
    IF files = <<>> THEN ss
    ELSE IngestLoop(IngestFile(ss, Head(files)), Tail(files))

\* A faulty variant: the handler forgets to delete run_processing.
ResetKeepRunProcessing(ss) ==
    [ss EXCEPT !.processed_data = <<>>, !.errors = <<>>, !.processed_files = {},
               !.parse_calls = [n \in FileNames |-> 0]]

\* Lines 207-211: the handler of "Limpar e Recomecar" up to its st.rerun().
ResetSession(ss) ==
    [ss EXCEPT !.processed_data = <<>>, !.errors = <<>>, !.processed_files = {},
               !.run_processing = FALSE,
               !.parse_calls = [n \in FileNames |-> 0]]

\* Line 203: the handler of "Processar Dados Acumulados".
SetRunProcessing(ss) == [ss EXCEPT !.run_processing = TRUE]

\* One run of the script with the widget values it sees, followed by the
\* runs its st.rerun() calls start (lines 185 and 212); a rerun sees the
\* same uploader value and no button as pressed.  The value is the session
\* state when the last run reaches the end of the script.
RECURSIVE ScriptRun(_, _, _, _)
ScriptRun(ss, uploaded, process_clicked, reset_clicked) ==
    LET new_files == new_files_to_process(uploaded, ss)
    IN  IF uploaded # <<>> /\ new_files # <<>>
        THEN ScriptRun(IngestLoop(ss, new_files), uploaded, FALSE, FALSE)
        ELSE LET s1 == IF process_clicked THEN SetRunProcessing(ss) ELSE ss
             IN  IF reset_clicked
                 THEN ScriptRun(ResetSession(s1), uploaded, FALSE, FALSE)
                 ELSE s1

\* Lines 214-219: final_data of the run that reaches the end of the script.
ShownData(ss) ==
    IF ss.run_processing THEN aggregate_data(ss.processed_data) ELSE <<>>

\* A widget event: the script runs with the new widget values until a run
\* reaches the end of the script.
WidgetEvent(uploaded, process_clicked, reset_clicked) ==
    LET ss == ScriptRun(SessionState, uploaded, process_clicked, reset_clicked)
    IN  /\ processed_data'  = ss.processed_data
        /\ errors'          = ss.errors
        /\ processed_files' = ss.processed_files
        /\ run_processing'  = ss.run_processing
        /\ parse_calls'     = ss.parse_calls
        /\ uploaded_files'  = uploaded
        /\ final_data'      = ShownData(ss)
        /\ UNCHANGED <<selected_layout, result_text, download_file_name, clock,
                       pc, call_args, call_ret>>

\* The state after the first run of the script (lines 23-28): nothing
\* uploaded, no button pressed.
Init ==
    /\ processed_data = <<>>
    /\ errors = <<>>
    /\ processed_files = {}
    /\ run_processing = FALSE
    /\ parse_calls = [n \in FileNames |-> 0]
    /\ uploaded_files = <<>>
    /\ last_event = "start"
    /\ final_data = <<>>
    /\ selected_layout = LayoutApha7
    /\ result_text = <<>>
    /\ download_file_name = <<>>
    /\ clock = 0
    /\ pc = "session"
    /\ call_args = <<>>
    /\ call_ret = <<>>

\* The user adds files to or removes files from the uploader.
UploadFiles ==
    \E batch \in Batches :
        /\ batch # uploaded_files
        /\ WidgetEvent(batch, FALSE, FALSE)
        /\ last_event' = "upload"

\* The user presses "Processar Dados Acumulados", enabled by line 202 only
\* while processed_data is not empty.
ClickProcess ==
    /\ processed_data # <<>>
    /\ WidgetEvent(uploaded_files, TRUE, FALSE)
    /\ last_event' = "process"

\* The user presses "Limpar e Recomecar".
ClickReset ==
    /\ WidgetEvent(uploaded_files, FALSE, TRUE)
    /\ last_event' = "reset"

Next == UploadFiles \/ ClickProcess \/ ClickReset

Spec == Init /\ [][Next]_vars

(***************************************************************************)
(* RunSpec: the result block, lines 219-224, one statement at a time, on   *)
(* every small list of records the parser can have accumulated (the empty  *)
(* list too: the three functions accept it).  The wall clock may advance   *)
(* between any two statements.                                             *)
(***************************************************************************)
RunCodes == {<<65>>, <<66>>, <<67>>}            \* "A", "B", "C"

RunQuantities == {1, 12}

RunRecords == [code : RunCodes, quantity : RunQuantities]

RunData == UNION {[1..n -> RunRecords] : n \in 0..MaxRecs}

\* 2024-01-02 23:59:59: the next second starts a new minute and a new day.
RunStarts == {2 * 86400 - 1}

InitRun ==
    /\ processed_data \in RunData
    /\ selected_layout \in LayoutNames
    /\ clock \in RunStarts
    /\ run_processing = TRUE
    /\ pc = "line219"
    /\ final_data = <<>>
    /\ result_text = <<>>
    /\ download_file_name = <<>>
    /\ errors = <<>>
    /\ processed_files = {}
    /\ parse_calls = [n \in FileNames |-> 0]
    /\ uploaded_files = <<>>
    /\ last_event = "process"
    /\ call_args = <<>>
    /\ call_ret = <<>>

runFrame == <<processed_data, errors, processed_files, run_processing,
              uploaded_files, selected_layout, parse_calls, last_event,
              call_args, call_ret>>

\* Line 219
RunAggregate ==
    /\ pc = "line219"
    /\ final_data' = aggregate_data(processed_data)
    /\ pc' = "line223"
    /\ UNCHANGED <<result_text, download_file_name, clock>>
    /\ UNCHANGED runFrame

\* Line 223
RunFormat ==
    /\ pc = "line223"
    /\ result_text' = format_output_data(final_data, selected_layout, clock)
    /\ pc' = "line224"
    /\ UNCHANGED <<final_data, download_file_name, clock>>
    /\ UNCHANGED runFrame

\* Line 224
RunFilename ==
    /\ pc = "line224"
    /\ download_file_name' = generate_filename(selected_layout, clock)
    /\ pc' = "done"
    /\ UNCHANGED <<final_data, result_text, clock>>
    /\ UNCHANGED runFrame

\* A second passes while the block runs.
Tick ==
    /\ pc # "done"
    /\ clock \in RunStarts
    /\ clock' = clock + 1
    /\ UNCHANGED <<final_data, result_text, download_file_name, pc>>
    /\ UNCHANGED runFrame

NextRun == RunAggregate \/ RunFormat \/ RunFilename \/ Tick

RunSpec == InitRun /\ [][NextRun]_vars

(***************************************************************************)
(* ParseSpec: parse_uploaded_file on every byte stream of at most          *)
(* MaxFileLen bytes over ByteAlphabet.                                     *)
(***************************************************************************)
\* '\n', ' ', ',', '-', '1', and 0xFF, which no UTF-8 stream holds.
ByteAlphabet == {LF, SPACE, COMMA, MINUS, 49, 255}

ParseInputs == UNION {[1..n -> ByteAlphabet] : n \in 0..MaxFileLen}

InitParse ==
    /\ call_args \in [name : {"f.txt"}, bytes : ParseInputs]
    /\ call_ret = <<>>
    /\ pc = "parse_call"
    /\ processed_data = <<>>
    /\ errors = <<>>
    /\ processed_files = {}
    /\ run_processing = FALSE
    /\ parse_calls = [n \in FileNames |-> 0]
    /\ uploaded_files = <<>>
    /\ last_event = "start"
    /\ final_data = <<>>
    /\ selected_layout = LayoutApha7
    /\ result_text = <<>>
    /\ download_file_name = <<>>
    /\ clock = 0

\* Line 181: data, errors = parse_uploaded_file(file)
ParseCall ==
    /\ pc = "parse_call"
    /\ call_ret' = parse_uploaded_file(call_args)
    /\ pc' = "parse_done"
    /\ UNCHANGED <<processed_data, errors, processed_files, run_processing,
                   uploaded_files, selected_layout, final_data, result_text,
                   download_file_name, clock, parse_calls, last_event, call_args>>

NextParse == ParseCall

ParseSpec == InitParse /\ [][NextParse]_vars

(***************************************************************************)
(* Vocabulary of the properties, defined without the operators above.      *)
(***************************************************************************)
\* The pieces of s between the occurrences of sep, one more than there
\* are occurrences: the pieces of the two halves of s, the last piece of
\* the first half joined to the first piece of the second.
RECURSIVE Cut(_, _)
Cut(s, sep) ==
    IF s = <<>> THEN << <<>> >>
    ELSE IF Len(s) = 1 THEN (IF s[1] = sep THEN << <<>>, <<>> >> ELSE <<s>>)
    ELSE LET m == Len(s) \div 2
             l == Cut(SubSeq(s, 1, m), sep)
             r == Cut(SubSeq(s, m + 1, Len(s)), sep)
         IN  SubSeq(l, 1, Len(l) - 1) \o <<l[Len(l)] \o r[1]>> \o Tail(r)

\* The comma-separated fields of each line.
RECURSIVE FieldsOf(_)
FieldsOf(lines) ==
    IF lines = <<>> THEN <<>> ELSE <<Cut(Head(lines), COMMA)>> \o FieldsOf(Tail(lines))

\* The first n fields of each line, and the fields after them.
RECURSIVE Firsts(_, _)
Firsts(rows, n) ==
    IF rows = <<>> THEN <<>>
    ELSE <<SubSeq(Head(rows), 1, n)>> \o Firsts(Tail(rows), n)

RECURSIVE Without(_, _)
Without(rows, n) ==
    IF rows = <<>> THEN <<>>
    ELSE <<SubSeq(Head(rows), n + 1, Len(Head(rows)))>> \o Without(Tail(rows), n)

\* The lines of a text: none for the empty text.
LinesOf(text) == IF text = <<>> THEN <<>> ELSE Cut(text, LF)

\* s without its leading and trailing whitespace.
Trim(s) ==
    LET ink == {i \in DOMAIN s : ~IsSpace(s[i])}
    IN  IF ink = {} THEN <<>>
        ELSE SubSeq(s, CHOOSE i \in ink : \A j \in ink : i <= j,
                       CHOOSE i \in ink : \A j \in ink : j <= i)

AllDigits(s) == \A i \in DOMAIN s : IsDigit(s[i])

RECURSIVE DecimalValue(_)
DecimalValue(s) ==
    IF s = <<>> THEN 0
    ELSE 10 * DecimalValue(SubSeq(s, 1, Len(s) - 1)) + (s[Len(s)] - 48)

Unsigned(t) == IF t # <<>> /\ t[1] \in {MINUS, PLUS} THEN Tail(t) ELSE t

\* t is the text of an integer: an optional sign and at least one digit.
IsIntegerText(t) == Unsigned(t) # <<>> /\ AllDigits(Unsigned(t))

IntegerValue(t) ==
    IF t # <<>> /\ t[1] = MINUS THEN 0 - DecimalValue(Unsigned(t))
    ELSE DecimalValue(Unsigned(t))

RECURSIVE SumQuantities(_)
SumQuantities(data) ==
    IF data = <<>> THEN 0 ELSE Head(data).quantity + SumQuantities(Tail(data))

CodesOf(data) == {data[i].code : i \in DOMAIN data}

QuantityOf(data, code) ==
    SumQuantities(SelectSeq(data, LAMBDA r : r.code = code))

\* How many members of the set of positions S are <= i.
Rank(S, i) == Cardinality({j \in S : j <= i})

(***************************************************************************)
(* C1                                                                      *)
(***************************************************************************)
\* C1: once line 219 has run, the quantities of final_data sum to the sum of
\* the quantities of the list given to aggregate_data, its codes are the
\* distinct codes of that list, and no code appears twice (so the empty
\* list gives the empty list).
C1_AggregatePreservesTotals ==
    pc \in {"line223", "line224", "done"} =>
        /\ SumQuantities(final_data) = SumQuantities(processed_data)
        /\ CodesOf(final_data) = CodesOf(processed_data)
        /\ Cardinality(CodesOf(final_data)) = Len(final_data)

\* A list with a repeated code and positive quantities has been aggregated.
C1_Witness ==
    /\ pc = "line223"
    /\ Len(processed_data) = 3
    /\ Len(final_data) = 2
    /\ \E i \in DOMAIN final_data : final_data[i].quantity = 13

(***************************************************************************)
(* C4                                                                      *)
(***************************************************************************)
\* The fields of the lines of result_text that hold the code and the quantity.
CodeField(layout)     == IF layout = LayoutInovaFarma THEN 1 ELSE 3
QuantityField(layout) == IF layout = LayoutInovaFarma THEN 2 ELSE 4

\* The line of result_text that carries the code.
LineOfCode(code) ==
    LET lines == LinesOf(result_text)
    IN  CHOOSE k \in DOMAIN lines :
            Cut(lines[k], COMMA)[CodeField(selected_layout)] = code

\* C4: once line 223 has run, result_text has one line per record of
\* final_data, the quantities of its lines never decrease from one line to
\* the next, and two records of equal quantity keep, in the lines, the
\* order they have in final_data (the list aggregate_data returned).
C4_SortedStable ==
    pc \in {"line224", "done"} =>
        LET lines  == LinesOf(result_text)
            fields == FieldsOf(lines)
            code   == [k \in DOMAIN lines |-> fields[k][CodeField(selected_layout)]]
            qty    == [k \in DOMAIN lines |->
                          DecimalValue(fields[k][QuantityField(selected_layout)])]
            at(c)  == CHOOSE k \in DOMAIN lines : code[k] = c
        IN  /\ Len(lines) = Len(final_data)
            /\ CodesOf(final_data) = Range(code)
            /\ \A k \in DOMAIN lines : k > 1 => qty[k - 1] <= qty[k]
            /\ \A i, j \in DOMAIN final_data :
                  i < j /\ final_data[i].quantity = final_data[j].quantity
                      => at(final_data[i].code) < at(final_data[j].code)

\* Three records, two of equal quantity listed after a larger one.
C4_Witness ==
    /\ pc = "done"
    /\ Len(final_data) = 3
    /\ final_data[1].quantity = 12
    /\ final_data[2].quantity = 1
    /\ final_data[3].quantity = 1
    /\ LineOfCode(final_data[2].code) = 1
    /\ LineOfCode(final_data[3].code) = 2
    /\ LineOfCode(final_data[1].code) = 3

(***************************************************************************)
(* C6                                                                      *)
(***************************************************************************)
\* The YYYYMMDD and the HHMM of "...<YYYYMMDD>_<HHMM>.txt".
FilenameDate(name) == SubSeq(name, Len(name) - 16, Len(name) - 9)
FilenameTime(name) == SubSeq(name, Len(name) - 7, Len(name) - 4)

\* C6: when the result block is done, the date and the hour and minute of
\* every content line that carries a timestamp are the date and the HHMM of
\* the file name, whatever the clock did between lines 223 and 224.
C6_SameNow ==
    pc = "done" /\ selected_layout # LayoutInovaFarma =>
        \A k \in DOMAIN LinesOf(result_text) :
            LET fields == Cut(LinesOf(result_text)[k], COMMA)
            IN  /\ fields[1] = FilenameDate(download_file_name)
                /\ SubSeq(fields[2], 1, 4) = FilenameTime(download_file_name)

(***************************************************************************)
(* C7                                                                      *)
(***************************************************************************)
\* The fields a line must have after the code and the quantity.
LayoutTail(layout) ==
    IF layout = Layout3 THEN << <<76, 97, 121, 111, 117, 116, 51>> >>  \* "Layout3"
    ELSE IF layout = Layout4 THEN << <<76, 97, 121, 111, 117, 116, 52>> >>
    ELSE <<>>

\* C7: once line 223 has run, result_text is empty for an empty final_data
\* and otherwise its lines, separated by single newlines with none at the
\* end, are one per record of final_data, each made of exactly the fields of
\* the selected layout: CODE,QUANTITY for Layout InovaFarma; an 8-digit date,
\* a 6-digit time, CODE and QUANTITY for Layout Apha7; those four and
\* Layout3 or Layout4 for Layout 3 and Layout 4; the date and the time are
\* the same on every line.
C7_LayoutShape ==
    pc \in {"line224", "done"} =>
        LET lines  == LinesOf(result_text)
            plain  == selected_layout = LayoutInovaFarma
            fields == FieldsOf(lines)
            stamp  == IF plain THEN <<>> ELSE Firsts(fields, 2)
            rest   == IF plain THEN fields ELSE Without(fields, 2)
        IN  /\ (final_data = <<>>) <=> (result_text = <<>>)
            /\ Len(lines) = Len(final_data)
            /\ \A k \in DOMAIN lines :
                  /\ lines[k] # <<>>
                  /\ Len(rest[k]) = 2 + Len(LayoutTail(selected_layout))
                  /\ SubSeq(rest[k], 3, Len(rest[k])) = LayoutTail(selected_layout)
                  /\ AllDigits(rest[k][2]) /\ rest[k][2] # <<>>
                  /\ (Len(rest[k][2]) > 1 => rest[k][2][1] # 48)
                  /\ [code |-> rest[k][1], quantity |-> DecimalValue(rest[k][2])]
                        \in Range(final_data)
                  /\ ~plain =>
                        /\ Len(fields[k]) >= 2
                        /\ Len(stamp[k][1]) = 8 /\ AllDigits(stamp[k][1])
                        /\ Len(stamp[k][2]) = 6 /\ AllDigits(stamp[k][2])
                        /\ stamp[k] = stamp[1]
            /\ CodesOf(final_data) = {rest[k][1] : k \in DOMAIN lines}

\* Each layout has rendered two records or more.
C7_Witness ==
    /\ pc = "line224"
    /\ selected_layout = Layout4
    /\ Len(final_data) = 2
    /\ Len(LinesOf(result_text)) = 2
    /\ Len(Cut(LinesOf(result_text)[2], COMMA)) = 5

(***************************************************************************)
(* C3                                                                      *)
(***************************************************************************)
\* The two trimmed fields of a line that has exactly one comma.
LineFields(line) ==
    LET f == Cut(Trim(line), COMMA)
    IN  IF Len(f) = 2 THEN <<Trim(f[1]), Trim(f[2])>> ELSE <<>>

\* A line the parser must accept: two fields, a code, an integer >= 0.
IsValidLine(line) ==
    LET f == LineFields(line)
    IN  /\ f # <<>>
        /\ f[1] # <<>>
        /\ IsIntegerText(f[2])
        /\ IntegerValue(f[2]) >= 0

IsBlankLine(line) == Trim(line) = <<>>

\* C3: for a file that decodes, parse_uploaded_file returns, in the order of
\* the lines, one record [trimmed code, parsed quantity] for each valid
\* line and one error for each line that is neither blank nor valid, the
\* error naming the file and the line's 1-based position (blank lines
\* counted); so records + errors = non-blank lines, and no error stops the
\* parsing of the lines after it.
C3_ParserAccumulates ==
    (pc = "parse_done" /\ \A i \in DOMAIN call_args.bytes : call_args.bytes[i] < 128) =>
        LET lines == Cut(call_args.bytes, LF)
            valid == {i \in DOMAIN lines : IsValidLine(lines[i])}
            bad   == {i \in DOMAIN lines :
                         ~IsBlankLine(lines[i]) /\ ~IsValidLine(lines[i])}
        IN  /\ Len(call_ret.records) = Cardinality(valid)
            /\ Len(call_ret.errors) = Cardinality(bad)
            /\ \A i \in valid :
                  call_ret.records[Rank(valid, i)] =
                      [code     |-> LineFields(lines[i])[1],
                       quantity |-> IntegerValue(LineFields(lines[i])[2])]
            /\ \A i \in bad :
                  /\ call_ret.errors[Rank(bad, i)].line = i
                  /\ call_ret.errors[Rank(bad, i)].file = call_args.name
                  /\ call_ret.errors[Rank(bad, i)].kind # "read"

\* A blank line, a line in error and then a valid line: the error names
\* line 2 and the record of line 3 is returned.
C3_Witness ==
    /\ pc = "parse_done"
    /\ call_args.bytes = <<LF, COMMA, LF, 49, COMMA, 49>>
    /\ Len(call_ret.errors) = 1
    /\ call_ret.errors[1].line = 2
    /\ call_ret.records = <<[code |-> <<49>>, quantity |-> 1]>>

(***************************************************************************)
(* C2                                                                      *)
(***************************************************************************)
\* C2: between two resets no file name is given to parse_uploaded_file more
\* than once, whatever the uploader holds (the same list again on a rerun,
\* two files of one name in one batch).
C2_ParsedAtMostOnce == \A n \in FileNames : parse_calls[n] <= 1

(***************************************************************************)
(* C5                                                                      *)
(***************************************************************************)
\* C5: when "Limpar e Recomecar" has been handled, the accumulated records,
\* the accumulated errors and the set of processed file names are empty and
\* run_processing is absent.
C5_ResetDiscardsAll ==
    last_event = "reset" =>
        /\ processed_data = <<>>
        /\ errors = <<>>
        /\ processed_files = {}
        /\ ~run_processing

(***************************************************************************)
(* C8                                                                      *)
(***************************************************************************)
CannotDecode(f) == \E i \in DOMAIN f.bytes : f.bytes[i] = 255

IsReadError(e) == e.kind = "read"

\* C8: a file that cannot be decoded gives no record and exactly one error,
\* and when the uploader changes, the records accumulated, and the errors
\* other than those of the undecodable files, are those the same change
\* accumulates with the undecodable files left out of the uploader; each
\* undecodable file read adds its one error.
C8_DecodeErrorIsolated ==
    [][ last_event' = "upload" =>
          LET good == SelectSeq(uploaded_files', LAMBDA f : ~CannotDecode(f))
              bad  == SelectSeq(uploaded_files',
                                LAMBDA f : CannotDecode(f)
                                               /\ f.name \notin processed_files)
              ref  == ScriptRun(SessionState, good, FALSE, FALSE)
          IN  /\ \A i \in DOMAIN bad :
                    /\ parse_uploaded_file(bad[i]).records = <<>>
                    /\ Len(parse_uploaded_file(bad[i]).errors) = 1
              /\ processed_data' = ref.processed_data
              /\ SelectSeq(errors', LAMBDA e : ~IsReadError(e))
                    = SelectSeq(ref.errors, LAMBDA e : ~IsReadError(e))
              /\ Len(errors') = Len(ref.errors) + Len(bad)
              /\ processed_files' = ref.processed_files \cup Range([i \in DOMAIN bad |-> bad[i].name])
      ]_vars

\* The undecodable file came first in a batch and the file after it was read.
C8_Witness ==
    /\ last_event = "upload"
    /\ uploaded_files = <<FileC, FileA>>
    /\ processed_files = {"c.txt", "a.txt"}
    /\ Len(processed_data) = 2
    /\ Len(errors) = 1
    /\ IsReadError(errors[1])

(***************************************************************************)
(* C9                                                                      *)
(***************************************************************************)
\* C9: every accumulated record has a code that is not empty and has no
\* whitespace at either end, and a quantity >= 0 (0 is accepted); so every
\* quantity aggregate_data gives for the accumulated data is >= 0.
C9_RecordsWellFormed ==
    /\ \A i \in DOMAIN processed_data :
          /\ processed_data[i].code # <<>>
          /\ Trim(processed_data[i].code) = processed_data[i].code
          /\ processed_data[i].quantity \in Nat
    /\ \A i \in DOMAIN aggregate_data(processed_data) :
          aggregate_data(processed_data)[i].quantity >= 0

\* A line of quantity 0 was accepted, a line of quantity -1 was refused and
\* a code written between spaces was kept without them.
C9_Witness ==
    /\ \E i \in DOMAIN processed_data : processed_data[i].quantity = 0
    /\ \E i \in DOMAIN errors : errors[i].kind = "negative"
    /\ \E i \in DOMAIN processed_data :
          processed_data[i] = [code |-> <<65>>, quantity |-> 2]

(***************************************************************************)
(* C10                                                                     *)
(***************************************************************************)
\* C10: the result is shown (run_processing is set) only while records are
\* accumulated, and the data it shows is the aggregation of the records
\* accumulated now: one entry per code, with the sum of its quantities.
C10_ShownResultIsCurrent ==
    run_processing =>
        /\ processed_data # <<>>
        /\ CodesOf(final_data) = CodesOf(processed_data)
        /\ Len(final_data) = Cardinality(CodesOf(processed_data))
        /\ \A i \in DOMAIN final_data :
              final_data[i].quantity = QuantityOf(processed_data, final_data[i].code)

\* A file was uploaded after the button was pressed and the result shown
\* counts it.
C10_Witness ==
    /\ run_processing
    /\ last_event = "upload"
    /\ processed_files = {"a.txt", "b.txt"}
    /\ QuantityOf(final_data, <<65>>) = 3

=============================================================================
